---------------------------- MODULE Spec2Model ----------------------------
(***************************************************************************)
(* Model of the Instagram automation core of PuppeteerSocial:              *)
(*   src/instagram-functions.js  discovery, favorite (like), reply         *)
(*   src/bot.js                  runAction and its auto-comment batch loop *)
(*                                                                         *)
(* src/instagram-functions.js holds two copies of the module; the model    *)
(* follows the first copy (lines 1-975), which is the one that returns     *)
(* structured outcomes to the batch loop of bot.js.                        *)
(*                                                                         *)
(* The remote page is the environment: what an evaluate() returns, whether *)
(* a navigation times out, whether a scroll changed the page height are    *)
(* nondeterministic choices, drawn with \E in the actions.                 *)
(***************************************************************************)
EXTENDS Integers, Sequences, FiniteSets, TLC

(***************************************************************************)
(* Bounds of the model.                                                    *)
(***************************************************************************)
NumItems == 2        \* distinct content items the platform can show
MaxLinks == 2        \* anchors one extraction reads from the page
MaxBatch == 2        \* largest maxPosts of a direct discover call
MaxGrow  == 1        \* scrolls of one discover call that change the height
MaxTarget == 2       \* largest maxPosts of an auto-comment run
MaxRuns == 1         \* auto-comment runs of one process
MaxActionRuns == 2   \* runs of the discover and like actions of one process

(***************************************************************************)
(* Program constants.                                                      *)
(***************************************************************************)
maxConsecutiveFailedScrolls == 10
maxConsecutiveEmptyBatches == 5
BatchCap == 10
SliceLimit == 80
MinWords == 3

NULL == "null"

Items == 1..NumItems
\* Paths an anchor of the page can point to: /p/<i>/ for an item, and the
\* administrative sub-paths /p/<i>/liked_by/ and /p/<i>/c/<n>/.
LikedByPath == NumItems + 1
CommentPath == NumItems + 2
Paths == Items \cup {LikedByPath, CommentPath}
\* An href as the DOM gives it: a path and, possibly, a query string and a
\* fragment.  The pages of the model offer one item's link with a query
\* string as well.
Hrefs == [path : Paths, query : {FALSE}, frag : {FALSE}]
           \cup {[path |-> 1, query |-> TRUE, frag |-> FALSE]}
\* every href: with or without a query string, with or without a fragment
AllHrefs == [path : Paths, query : BOOLEAN, frag : BOOLEAN]
\* A cleaned locator: origin + pathname.  The query and frag fields are kept
\* in the representation and are always FALSE after clean().
LinkSeqs == UNION {[1..n -> Hrefs] : n \in 0..MaxLinks}

\* searchCriteria = { hashtag, keywords }; "" is an absent (falsy) field.
\* The hashtag wins over the keywords (line 99); both absent makes the call throw.
NoTag == ""
Criteria == { [hashtag |-> "#a",  keywords |-> "b"],
              [hashtag |-> NoTag, keywords |-> "b"],
              [hashtag |-> NoTag, keywords |-> NoTag] }

VARIABLES
  \* ---- module state of instagram-functions.js (lines 9-12)
  likedPosts,            \* Set of items liked in this process
  allDiscoveredPosts,    \* Set of items discovered in this session
  isOnSearchPage,
  currentSearchUrl,
  \* ---- the page handle
  url,                   \* where the page is: [kind, tag, item]
  \* ---- frame of discoverInstagramPosts
  dpc,                   \* "idle" | "loop" | "scroll" | "returned" | "raised"
  dMax,                  \* maxPosts of the call
  posts,                 \* the batch being built
  consecutiveFailedScrolls,
  grown,                 \* height-changing scrolls of this call (bounded)
  dCaller,               \* "api" | "run"
  needsLogin,            \* the login-wall check of the call found a wall (line 151)
  \* ---- the last call of instagramLike and of instagramComment
  lpc,                   \* "idle" | "returned": a direct call's result not yet taken
                         \* (cpc: the same for instagramComment)
  lLast,                 \* [item, ret, muts, nav, before, verified, failed, unlikeShown]
  cpc,
  cLast,                 \* [item, cache, outcome, ops, skipNav, defn, raised, ...]
  \* ---- frame of runAction, action 'auto-comment' (bot.js)
  rpc,                   \* position in runAction
  maxPosts,              \* the target of the run
  criteria,              \* finalSearchCriteria
  likePost,
  action,                \* the action of the run, "none" when no run is on
  successfulComments,
  attempts,
  consecutiveEmptyBatches,
  batch,                 \* the posts of the batch not yet visited by the for loop
  cur,                   \* postUrl of the iteration, 0 when none
  likedSuccessfully,
  result,                \* what runAction returned
  \* ---- history
  curCache,              \* what the cache answered at line 666 for cur
  curGate,               \* what the content gates of lines 641-663 found for cur
  runs,                  \* auto-comment runs started so far
  undisturbed,           \* so far in this run: no empty batch, nothing raised, every
                         \* item passed the gates, missed the cache and got its reply
  emitted,               \* item -> times returned by discover since reset (capped at 2)
  everLiked,             \* items for which some instagramLike call returned true
  prevLike,              \* the direct instagramLike call before the last one
  visited,               \* items the for loop of this run has taken so far
  repFailed,             \* a reportProgress call of this run has thrown
  opc,                   \* a second run in the same process: "idle" | "run"
  \* ---- the last call of ensureInstagramLoggedIn or checkSessionStatus
  lgpc,                  \* "idle" | "returned"
  lgLast,                \* what the call saw and gave back
  \* ---- the login gate of the run (bot.js line 568)
  loginCalls,            \* calls of ensureInstagramLoggedIn made by the run
  loginRet,              \* "none" | "true" | "raise": what the call gave the run
  \* ---- the last application of the link canonicalization of discovery
  cnpc,                  \* "idle" | "returned"
  cnIn,                  \* [x, y, defn]: two hrefs and the definition applied
  cnOut                  \* [x, xx, y]: canon(x), canon(canon(x)), canon(y)

dvars == <<dpc, dMax, posts, consecutiveFailedScrolls, grown, dCaller, needsLogin>>
gvars == <<allDiscoveredPosts, isOnSearchPage, currentSearchUrl>>
lvars == <<lpc, lLast, prevLike>>
cvars == <<cpc, cLast>>
rcfg == <<maxPosts, criteria, likePost, action>>
rctr == <<successfulComments, attempts, consecutiveEmptyBatches>>
hist == <<visited, repFailed>>
gate == <<lgpc, lgLast, loginCalls, loginRet>>
canon == <<cnpc, cnIn, cnOut>>
rvars == <<rpc, rcfg, rctr, batch, cur, likedSuccessfully, result, curCache, curGate,
           undisturbed, runs, hist, opc, gate, canon>>
vars == <<likedPosts, everLiked, gvars, url, dvars, emitted,
          lvars, cvars, rvars>>

(***************************************************************************)
(* Pure helpers.                                                           *)
(***************************************************************************)
Min(a, b) == IF a < b THEN a ELSE b
Range(s) == {s[k] : k \in 1..Len(s)}
Includes(s, x) == x \in Range(s)
RECURSIVE FilterSeq(_, _)
FilterSeq(s, keep) ==
  IF s = <<>> THEN <<>>
  ELSE IF Head(s) \in keep THEN <<Head(s)>> \o FilterSeq(Tail(s), keep)
       ELSE FilterSeq(Tail(s), keep)
Slice(s, n) == SubSeq(s, 1, Min(Len(s), n))

Blank == [kind |-> "blank", tag |-> NoTag, item |-> 0]
ListingUrl(t) == [kind |-> "listing", tag |-> t, item |-> 0]
ItemUrl(i) == [kind |-> "item", tag |-> NoTag, item |-> i]
Home == [kind |-> "home", tag |-> NoTag, item |-> 0]
LoginUrl == [kind |-> "login", tag |-> NoTag, item |-> 0]

\* hashtag.replace('#', '')
StripHash(t) == IF t = "#a" THEN "a" ELSE t
\* lines 99-106: the listing the criteria resolve to; NULL when the call throws
SearchUrl(c) ==
  IF c.hashtag # NoTag THEN StripHash(c.hashtag)
  ELSE IF c.keywords # NoTag THEN StripHash(c.keywords)
  ELSE NULL

\* lines 173-178: origin + pathname, the query and the fragment dropped
clean(h) == [path |-> h.path, query |-> FALSE, frag |-> FALSE]
\* second definition, lines 1085-1087: `.map(link => link.href)`, the href
\* as the DOM gives it
rawHref(h) == h
\* what a discovered link becomes under definition d of discoverInstagramPosts
Canon(d, h) == IF d = 1 THEN clean(h) ELSE rawHref(h)
\* lines 179-185: map clean, keep permalinks, drop liked_by and comment links
IsPermalink(h) == h.path \in Items
ExtractLinks(links) ==
  LET cleaned == [k \in 1..Len(links) |-> clean(links[k])]
      kept == FilterSeq(cleaned, {h \in Hrefs : IsPermalink(h) /\ ~h.query})
  IN  [k \in 1..Len(Slice(kept, SliceLimit)) |-> kept[k].path]

\* lines 191-197: append the links not yet in the batch and not yet discovered,
\* while the batch is short of maxPosts.  Returns the batch and the grown set.
RECURSIVE AddNewPosts_NoSeenCheck(_, _, _, _)
AddNewPosts_NoSeenCheck(ps, seen, new, max) ==
  IF new = <<>> THEN [posts |-> ps, seen |-> seen]
  ELSE LET p == Head(new) IN
       IF ~Includes(ps, p) /\ Len(ps) < max
       THEN AddNewPosts_NoSeenCheck(Append(ps, p), seen \cup {p}, Tail(new), max)
       ELSE AddNewPosts_NoSeenCheck(ps, seen, Tail(new), max)

RECURSIVE AddNewPosts_NoCap(_, _, _, _)
AddNewPosts_NoCap(ps, seen, new, max) ==
  IF new = <<>> THEN [posts |-> ps, seen |-> seen]
  ELSE LET p == Head(new) IN
       IF ~Includes(ps, p) /\ p \notin seen
       THEN AddNewPosts_NoCap(Append(ps, p), seen \cup {p}, Tail(new), max)
       ELSE AddNewPosts_NoCap(ps, seen, Tail(new), max)

RECURSIVE AddNewPosts_SeenIsBatch(_, _, _, _)
AddNewPosts_SeenIsBatch(ps, seen, new, max) ==
  IF new = <<>> THEN [posts |-> ps, seen |-> {ps[k] : k \in 1..Len(ps)}]
  ELSE LET p == Head(new) IN
       IF ~Includes(ps, p) /\ p \notin seen /\ Len(ps) < max
       THEN AddNewPosts_SeenIsBatch(Append(ps, p), seen \cup {p}, Tail(new), max)
       ELSE AddNewPosts_SeenIsBatch(ps, seen, Tail(new), max)

RECURSIVE AddNewPosts(_, _, _, _)
AddNewPosts(ps, seen, new, max) ==
  IF new = <<>> THEN [posts |-> ps, seen |-> seen]
  ELSE LET p == Head(new) IN
       IF ~Includes(ps, p) /\ p \notin seen /\ Len(ps) < max
       THEN AddNewPosts(Append(ps, p), seen \cup {p}, Tail(new), max)
       ELSE AddNewPosts(ps, seen, Tail(new), max)

\* history: one more emission of each item of the returned batch
Emit(e, b) == [i \in Items |-> IF Includes(b, i) THEN Min(e[i] + 1, 2) ELSE e[i]]

(***************************************************************************)
(* instagramLike, lines 500-672, as a function of what the page does.      *)
(*   pre          the navigation and the evaluate() calls of lines 511-565 *)
(*   mediaId      a media id could be read (lines 515-538)                 *)
(*   alreadyLiked an Unlike control is shown (lines 543-552)               *)
(*   m1, m2       the two endpoint requests (lines 572-629): the response  *)
(*                is ok, is not ok, or the request raises (caught in place *)
(*                at lines 596-598 and 627-629)                            *)
(*   m3           the UI click and its verification (lines 634-663)        *)
(* Result: ret ("true" | "false" | "raise"), the number of mutation        *)
(* attempts made (requests sent, clicks made), whether the page was moved  *)
(* to the item, whether the page was seen to show the item as liked        *)
(* (lines 543-552 before any attempt, lines 646-654 after the click), and  *)
(* the number of strategies that ran and failed.                           *)
(***************************************************************************)
LikeEnvs == [pre : {"ok", "navRaise", "evalRaise"},
             mediaId : BOOLEAN,
             alreadyLiked : BOOLEAN,
             m1 : {"ok", "rejected", "raise"},
             m2 : {"ok", "rejected", "raise"},
             m3 : {"nobutton", "clickRaise", "unverified", "verified"}]

LikeRet(r, m, n, v, f) ==
  [ret |-> r, muts |-> m, nav |-> n, verified |-> v, failed |-> f]

\* Method 3 without its try/catch: an exception of the click leaves the call
LikeStrategies_M3Throws(e) ==
  IF e.pre = "navRaise" THEN LikeRet("raise", 0, FALSE, FALSE, 0)
  ELSE IF e.pre = "evalRaise" THEN LikeRet("raise", 0, TRUE, FALSE, 0)
  ELSE IF ~e.mediaId THEN LikeRet("false", 0, TRUE, FALSE, 0)
  ELSE IF e.alreadyLiked THEN LikeRet("true", 0, TRUE, TRUE, 0)
  ELSE IF e.m1 = "ok" THEN LikeRet("true", 1, TRUE, FALSE, 0)
  ELSE IF e.m2 = "ok" THEN LikeRet("true", 2, TRUE, FALSE, 1)
  ELSE IF e.m3 = "verified" THEN LikeRet("true", 3, TRUE, TRUE, 2)
  ELSE IF e.m3 = "clickRaise" THEN LikeRet("raise", 3, TRUE, FALSE, 3)
  ELSE LikeRet("false", IF e.m3 = "nobutton" THEN 2 ELSE 3, TRUE, FALSE, 3)

LikeStrategies(e) ==
  IF e.pre = "navRaise" THEN LikeRet("raise", 0, FALSE, FALSE, 0)   \* 511, 668-671
  ELSE IF e.pre = "evalRaise" THEN LikeRet("raise", 0, TRUE, FALSE, 0)
  ELSE IF ~e.mediaId THEN LikeRet("false", 0, TRUE, FALSE, 0)      \* 535-538
  ELSE IF e.alreadyLiked THEN LikeRet("true", 0, TRUE, TRUE, 0)     \* 543-552
  ELSE IF e.m1 = "ok" THEN LikeRet("true", 1, TRUE, FALSE, 0)       \* 589-592
  ELSE IF e.m2 = "ok" THEN LikeRet("true", 2, TRUE, FALSE, 1)       \* 620-623
  ELSE IF e.m3 = "verified" THEN LikeRet("true", 3, TRUE, TRUE, 2)  \* 646-654
  ELSE LikeRet("false", IF e.m3 = "nobutton" THEN 2 ELSE 3, TRUE, FALSE, 3)  \* 666

LikeOutcome_NoMemo(i, liked, e) == LikeStrategies(e)

LikeOutcome(i, liked, e) ==
  IF i \in liked
  THEN LikeRet("true", 0, FALSE, FALSE, 0)              \* lines 504-507
  ELSE LikeStrategies(e)

\* the call navigated to the item and the page it loaded shows an Unlike
\* control (the selectors of lines 544-545)
ShowsUnlike(i, liked, e) == i \notin liked /\ e.pre = "ok" /\ e.alreadyLiked

NoLike == [item |-> 0, ret |-> "none", muts |-> 0, nav |-> FALSE, before |-> FALSE,
           verified |-> FALSE, failed |-> 0, unlikeShown |-> FALSE]

\* the likedPosts.add(postUrl) of lines 550, 591, 622 and 653: the call got
\* past the memo test of line 504 and one of the four branches is taken
AddsToLiked_NotAfterClick(i, liked, e) ==
  /\ i \notin liked
  /\ e.pre = "ok" /\ e.mediaId
  /\ (e.alreadyLiked \/ e.m1 = "ok" \/ e.m2 = "ok")

AddsToLiked(i, liked, e) ==
  /\ i \notin liked
  /\ e.pre = "ok" /\ e.mediaId
  /\ (e.alreadyLiked \/ e.m1 = "ok" \/ e.m2 = "ok" \/ e.m3 = "verified")

instagramLike(i, e) ==
  LET o == LikeOutcome(i, likedPosts, e) IN
  /\ likedPosts' = IF AddsToLiked(i, likedPosts, e) THEN likedPosts \cup {i}
                   ELSE likedPosts
  /\ url' = IF o.nav THEN ItemUrl(i) ELSE url
  /\ lLast' = [item |-> i, ret |-> o.ret, muts |-> o.muts, nav |-> o.nav,
               before |-> i \in everLiked,
               verified |-> o.verified, failed |-> o.failed,
               unlikeShown |-> ShowsUnlike(i, likedPosts, e)]
  /\ everLiked' = IF o.ret = "true" THEN everLiked \cup {i} ELSE everLiked

(***************************************************************************)
(* instagramComment as a function of what the page does.  The file holds   *)
(* two definitions of the function: lines 674-975 and lines 1706-1947.     *)
(*   cache        what hasMyCommentAndCache answers at line 683 (1709):    *)
(*                the item already has a reply of the account (hit), has   *)
(*                none (miss), or the lookup throws (raise)                *)
(*   nav          page.goto of line 697 (1729)                             *)
(*   input        the text-entry control: found at once, found after the   *)
(*                one scroll, or not found (lines 732-773, 1753-1799)      *)
(*   button       a submit control was found by one of the selector lists  *)
(*                (lines 802-897, 1813-1877), or none was                  *)
(*   posted       the reply text is seen among the rendered content        *)
(*   cleared      the text-entry control is seen empty after the submit    *)
(*                (read by the second definition only, lines 1893-1897)    *)
(*   raiseAt      a page call of lines 777-798 (1802-1806), the click of   *)
(*                the submit control (940, 1821), or the evaluate() of the *)
(*                verification (945, 1891) throws                          *)
(* Result: the outcome object, the kinds of page operations performed,     *)
(* whether the page was moved to the item, whether the call raised (then   *)
(* outcome.reason is the message of the error), whether the verification   *)
(* after the submit ran (checked) and saw one of its signals (verified),   *)
(* and the expected negative outcome the call ended on, if any (gaveUp).   *)
(***************************************************************************)
CacheAnswers == {"hit", "miss", "raise"}
CommentEnvs == [cache : CacheAnswers,
                nav : {"ok", "raise"},
                input : {"first", "scrolled", "none"},
                button : {"found", "none"},
                posted : BOOLEAN,
                cleared : BOOLEAN,
                raiseAt : {"none", "type", "click", "verify"}]

Success == [success |-> TRUE, skipped |-> FALSE, reason |-> ""]
Skipped == [success |-> FALSE, skipped |-> TRUE, reason |-> "Already commented on this post"]
Failure(why) == [success |-> FALSE, skipped |-> FALSE, reason |-> why]
VerificationFailed == "Comment verification failed - comment may not have been posted"

CommentRet(out, ops, nav, gaveUp) ==
  [outcome |-> out, ops |-> ops, nav |-> nav, raised |-> FALSE,
   checked |-> FALSE, verified |-> FALSE, gaveUp |-> gaveUp]

Checked(r, seen) == [r EXCEPT !.checked = TRUE, !.verified = seen]
Raised(r) == [r EXCEPT !.raised = TRUE]

\* the first definition, lines 695-974, after the cache lookup
CommentAfterCache(skipNav, e) ==
  LET ops0 == IF skipNav THEN {} ELSE {"nav"}
      ops1 == ops0 \cup (IF e.input = "first" THEN {} ELSE {"scroll"})
      ops2 == ops1 \cup {"click", "type"}
  IN
  IF ~skipNav /\ e.nav = "raise"
  THEN CommentRet(Failure("error"), ops0, FALSE, "none")
  ELSE IF e.input = "none"
  THEN CommentRet(Failure("Comment input field not found"), ops1, ~skipNav, "noinput")
  ELSE IF e.raiseAt = "type"
  THEN CommentRet(Failure("error"), ops2, ~skipNav, "none")
  ELSE IF e.button = "none"
  THEN \* lines 900-936: the Enter key, then the check of the rendered text
       IF e.raiseAt = "verify"
       THEN CommentRet(Failure("Post button not found"), ops2 \cup {"key"}, ~skipNav, "nosubmit")
       ELSE IF e.posted
       THEN Checked(CommentRet(Success, ops2 \cup {"key"}, ~skipNav, "none"), TRUE)
       ELSE Checked(CommentRet(Failure("Post button not found"), ops2 \cup {"key"},
                               ~skipNav, "nosubmit"), FALSE)
  ELSE IF e.raiseAt \in {"click", "verify"}
  THEN CommentRet(Failure("error"), ops2, ~skipNav, "none")
  ELSE \* lines 940-964: both branches of the verification return success
       Checked(CommentRet(Success, ops2, ~skipNav, "none"), e.posted)

CommentOutcome_NavFirst(skipNav, e) ==
  IF e.cache = "raise"
  THEN CommentRet(Failure("error"), {}, FALSE, "none")
  ELSE IF ~skipNav /\ e.nav = "raise"
  THEN CommentRet(Failure("error"), {"nav"}, FALSE, "none")
  ELSE IF e.cache = "hit"
  THEN CommentRet(Skipped, IF skipNav THEN {} ELSE {"nav"}, ~skipNav, "already")
  ELSE CommentAfterCache(skipNav, e)

\* the first definition, lines 674-975
CommentOutcome(skipNav, e) ==
  IF e.cache = "raise"
  THEN CommentRet(Failure("error"), {}, FALSE, "none")
  ELSE IF e.cache = "hit"
  THEN CommentRet(Skipped, {}, FALSE, "already")          \* lines 685-693
  ELSE CommentAfterCache(skipNav, e)

\* the second definition, lines 1706-1947: its catch (1942-1946) rethrows
CommentOutcome2(skipNav, e) ==
  LET ops0 == IF skipNav THEN {} ELSE {"nav"}
      ops1 == ops0 \cup (IF e.input = "first" THEN {} ELSE {"scroll"})
      ops2 == ops1 \cup {"click", "type"}
      \* lines 1813-1884: a click that throws or a control that is missing
      \* ends in the Enter key
      ops3 == IF e.button = "none" \/ e.raiseAt = "click"
              THEN ops2 \cup {"key"} ELSE ops2
  IN
  IF e.cache = "raise"
  THEN Raised(CommentRet(Failure("error"), {}, FALSE, "none"))
  ELSE IF e.cache = "hit"
  THEN CommentRet(Skipped, {}, FALSE, "already")          \* lines 1710-1718
  ELSE IF ~skipNav /\ e.nav = "raise"
  THEN Raised(CommentRet(Failure("error"), ops0, FALSE, "none"))
  ELSE IF e.input = "none"                                \* lines 1797-1799
  THEN Raised(CommentRet(Failure("Comment input field not found"), ops1, ~skipNav, "noinput"))
  ELSE IF e.raiseAt = "type"
  THEN Raised(CommentRet(Failure("error"), ops2, ~skipNav, "none"))
  ELSE IF e.raiseAt = "verify"
  THEN Raised(CommentRet(Failure("error"), ops3, ~skipNav, "none"))
  ELSE IF e.cleared \/ e.posted                           \* lines 1912, 1934-1936
  THEN Checked(CommentRet(Success, ops3, ~skipNav, "none"), TRUE)
  ELSE Checked(Raised(CommentRet(Failure(VerificationFailed), ops3, ~skipNav, "none")), FALSE)

Definitions == {1, 2}

NoComment ==
  [item |-> 0, cache |-> "none", outcome |-> Failure(""), ops |-> {}, skipNav |-> FALSE,
   defn |-> 0, raised |-> FALSE, checked |-> FALSE, verified |-> FALSE, gaveUp |-> "none"]

instagramComment_NeverNavigates(i, skipNav, d, e) ==
  LET o == IF d = 1 THEN CommentOutcome(TRUE, e) ELSE CommentOutcome2(TRUE, e) IN
  /\ url' = IF o.nav THEN ItemUrl(i) ELSE url
  /\ cLast' = [item |-> i, cache |-> e.cache,
               outcome |-> o.outcome, ops |-> o.ops, skipNav |-> skipNav,
               defn |-> d, raised |-> o.raised, checked |-> o.checked,
               verified |-> o.verified, gaveUp |-> o.gaveUp]

instagramComment(i, skipNav, d, e) ==
  LET o == IF d = 1 THEN CommentOutcome(skipNav, e) ELSE CommentOutcome2(skipNav, e) IN
  /\ url' = IF o.nav THEN ItemUrl(i) ELSE url
  /\ cLast' = [item |-> i, cache |-> e.cache,
               outcome |-> o.outcome, ops |-> o.ops, skipNav |-> skipNav,
               defn |-> d, raised |-> o.raised, checked |-> o.checked,
               verified |-> o.verified, gaveUp |-> o.gaveUp]

(***************************************************************************)
(* The login classification.  A page, as far as the classification reads   *)
(* it:                                                                     *)
(*   route   where the page is: the home route, /accounts/login/ or        *)
(*           /accounts/emailsignup/                                        *)
(*   chrome  one of the navigation selectors matches                       *)
(*   form    a credential input is absent, present but not displayed, or   *)
(*           displayed                                                     *)
(*   title   the title: without any of the words, with "Login", with       *)
(*           "Sign up", or with "login" in lower case only                 *)
(* ensureInstagramLoggedIn (src/instagram-functions.js lines 237-379) and  *)
(* checkSessionStatus (src/bot.js lines 361-439) each compute four checks  *)
(* from the page and combine them in the same way.                         *)
(***************************************************************************)
Titles == {"plain", "Login", "Sign up", "login"}
PageSignals == [route : {"home", "login", "signup"},
                chrome : BOOLEAN,
                form : {"none", "hidden", "visible"},
                title : Titles]

\* instagram-functions.js lines 256-298
Checks1(p) ==
  [chrome |-> p.chrome,
   form |-> p.form # "none",
   route |-> p.route = "login",
   title |-> p.title \in {"Login", "Sign up"}]

\* bot.js lines 371-404: the form must be displayed, the sign-up route counts,
\* the title is lower-cased
Checks2(p) ==
  [chrome |-> p.chrome,
   form |-> p.form = "visible",
   route |-> p.route \in {"login", "signup"},
   title |-> p.title \in {"Login", "login"}]

IsLoggedIn_NoTitle(c) == c.chrome /\ ~c.form /\ ~c.route

\* instagram-functions.js line 299, bot.js line 415
IsLoggedIn(c) == c.chrome /\ ~c.form /\ ~c.route /\ ~c.title

\* lines 249-300: on the login route the answer is given at once (line 253)
InitialLoginCheck(p) ==
  IF p.route = "login" THEN FALSE ELSE IsLoggedIn(Checks1(p))

CredentialsPresent_UserOnly(u, pw) == u

\* line 308: !username || !password
CredentialsPresent(u, pw) == u /\ pw

\* lines 330-353: what the page shows after the submit.  errors: no alert
\* element, an alert with a text, an alert whose text is empty
PostErrors == {"none", "text", "empty"}
StillOnLoginPage(p) == p.route = "login" \/ p.form # "none"
IsSuccessful(p, errors) == (p.chrome \/ ~StillOnLoginPage(p)) /\ errors = "none"

\* line 356: foundErrors[0] || 'Login detection failed - ...'
LoginFailureMessage(errors) == IF errors = "text" THEN "platform" ELSE "generic"

(***************************************************************************)
(* ensureInstagramLoggedIn, lines 237-379 (the definition of lines         *)
(* 1138-1417 differs in waits and in the dismissal of dialogs).            *)
(*   home         the page.goto of line 243, made when the page is not on  *)
(*                the platform yet (line 242)                              *)
(*   pre          the page at the first classification                     *)
(*   user, pass   a username, a password was given                         *)
(*   loginForm    the navigation to the login route and the wait for the   *)
(*                form (lines 312-313)                                     *)
(*   post, errors the page after the submit                                *)
(* Result: ret ("true" | "raise"), the message of the error, the checks    *)
(* and the answer of the first classification, whether the login route was *)
(* navigated to, whether the credential fields were typed into, whether    *)
(* the form was submitted, what the four-signal classification says of the *)
(* page after the submit, and the credentials the call was given.          *)
(***************************************************************************)
EnsurePages == {p \in PageSignals :
                  p.form # "hidden" /\ p.route # "signup" /\ p.title # "login"}
EnsureEnvs == [home : {"ok", "raise"},
               pre : EnsurePages,
               user : BOOLEAN,
               pass : BOOLEAN,
               loginForm : {"ok", "raise"},
               post : EnsurePages,
               errors : PostErrors]

\* line 242: currentUrl.includes('instagram.com')
AtInstagram(u) == u.kind # "blank"

NoChecks == [chrome |-> FALSE, form |-> FALSE, route |-> FALSE, title |-> FALSE]

EnsureRet(ret, msg, e, classified, navLogin, typed, submitted) ==
  [fn |-> "ensure", ret |-> ret, msg |-> msg,
   classified |-> classified,
   checks |-> IF classified THEN Checks1(e.pre) ELSE NoChecks,
   isLoggedIn |-> classified /\ InitialLoginCheck(e.pre),
   navLogin |-> navLogin, typed |-> typed, submitted |-> submitted,
   postAuth |-> submitted /\ InitialLoginCheck(e.post),
   errors |-> IF submitted THEN e.errors ELSE "none",
   user |-> classified /\ e.user, pass |-> classified /\ e.pass]

EnsureOutcome(u, e) ==
  IF ~AtInstagram(u) /\ e.home = "raise"
  THEN EnsureRet("raise", "error", e, FALSE, FALSE, FALSE, FALSE)
  ELSE IF InitialLoginCheck(e.pre)
  THEN EnsureRet("true", "none", e, TRUE, FALSE, FALSE, FALSE)       \* 302-305
  ELSE IF ~CredentialsPresent(e.user, e.pass)
  THEN EnsureRet("raise", "nocreds", e, TRUE, FALSE, FALSE, FALSE)   \* 308-310
  ELSE IF e.loginForm = "raise"
  THEN EnsureRet("raise", "error", e, TRUE, TRUE, FALSE, FALSE)      \* 312-313
  ELSE IF IsSuccessful(e.post, e.errors)
  THEN EnsureRet("true", "none", e, TRUE, TRUE, TRUE, TRUE)          \* 360-373
  ELSE EnsureRet("raise", LoginFailureMessage(e.errors), e, TRUE, TRUE, TRUE, TRUE)

NoLogin ==
  [fn |-> "none", ret |-> "none", msg |-> "none", classified |-> FALSE,
   checks |-> NoChecks, isLoggedIn |-> FALSE, navLogin |-> FALSE, typed |-> FALSE,
   submitted |-> FALSE, postAuth |-> FALSE, errors |-> "none",
   user |-> FALSE, pass |-> FALSE]

\* where the call leaves the page
EnsureUrl(e, o) ==
  IF o.submitted THEN (IF e.post.route = "login" THEN LoginUrl ELSE Home)
  ELSE IF o.navLogin THEN LoginUrl
  ELSE IF o.classified THEN (IF e.pre.route = "login" THEN LoginUrl ELSE Home)
  ELSE url

ensureInstagramLoggedIn(e) ==
  LET o == EnsureOutcome(url, e) IN
  /\ lgLast' = o
  /\ url' = EnsureUrl(e, o)

\* checkSessionStatus, bot.js lines 361-439: navigate home, classify; an
\* exception becomes { isLoggedIn: false, reason: 'error' }
checkSessionStatus(nav, p) ==
  /\ lgLast' = [NoLogin EXCEPT
                  !.fn = "check",
                  !.ret = IF nav = "ok" /\ IsLoggedIn(Checks2(p)) THEN "true" ELSE "false",
                  !.msg = IF nav = "ok" THEN "none" ELSE "error",
                  !.classified = (nav = "ok"),
                  !.checks = IF nav = "ok" THEN Checks2(p) ELSE NoChecks,
                  !.isLoggedIn = (nav = "ok" /\ IsLoggedIn(Checks2(p)))]
  /\ url' = IF nav # "ok" THEN url
            ELSE IF p.route = "home" THEN Home ELSE LoginUrl

\* nothing canonicalized yet
NoCanonIn == [x |-> [path |-> 1, query |-> FALSE, frag |-> FALSE],
              y |-> [path |-> 1, query |-> FALSE, frag |-> FALSE], defn |-> 0]
NoCanonOut == [x |-> [path |-> 1, query |-> FALSE, frag |-> FALSE],
               xx |-> [path |-> 1, query |-> FALSE, frag |-> FALSE],
               y |-> [path |-> 1, query |-> FALSE, frag |-> FALSE]]

(***************************************************************************)
(* Initial state: the module just loaded, a fresh page, no call running.   *)
(***************************************************************************)
NoResult == [ok |-> FALSE, message |-> "none", successful |-> 0, total |-> 0]
NoCriteria == [hashtag |-> NoTag, keywords |-> NoTag]

Init ==
  /\ likedPosts = {}
  /\ everLiked = {}
  /\ allDiscoveredPosts = {}
  /\ isOnSearchPage = FALSE
  /\ currentSearchUrl = NULL
  /\ url = Blank
  /\ dpc = "idle"
  /\ dMax = 0
  /\ posts = <<>>
  /\ consecutiveFailedScrolls = 0
  /\ grown = 0
  /\ dCaller = "api"
  /\ needsLogin = FALSE
  /\ emitted = [i \in Items |-> 0]
  /\ lpc = "idle"
  /\ lLast = NoLike
  /\ prevLike = NoLike
  /\ cpc = "idle"
  /\ cLast = NoComment
  /\ rpc = "idle"
  /\ maxPosts = 0
  /\ criteria = NoCriteria
  /\ likePost = FALSE
  /\ action = "none"
  /\ successfulComments = 0
  /\ attempts = 0
  /\ consecutiveEmptyBatches = 0
  /\ batch = <<>>
  /\ cur = 0
  /\ likedSuccessfully = FALSE
  /\ result = NoResult
  /\ curCache = "none"
  /\ curGate = "none"
  /\ undisturbed = TRUE
  /\ runs = 0
  /\ visited = {}
  /\ repFailed = FALSE
  /\ opc = "idle"
  /\ lgpc = "idle"
  /\ lgLast = NoLogin
  /\ loginCalls = 0
  /\ loginRet = "none"
  /\ cnpc = "idle"
  /\ cnIn = NoCanonIn
  /\ cnOut = NoCanonOut

Idle == dpc = "idle" /\ lpc = "idle" /\ cpc = "idle" /\ rpc = "idle" /\ lgpc = "idle"

(***************************************************************************)
(* resetDiscoveryState, lines 15-20.                                       *)
(***************************************************************************)
DoReset ==
  /\ allDiscoveredPosts' = {}
  /\ isOnSearchPage' = FALSE
  /\ currentSearchUrl' = NULL
  /\ emitted' = [i \in Items |-> 0]

resetDiscoveryState ==
  /\ Idle
  /\ DoReset
  /\ UNCHANGED <<likedPosts, everLiked, url, dvars, lvars, cvars, rvars>>

(***************************************************************************)
(* discoverInstagramPosts, lines 92-231.                                   *)
(*                                                                         *)
(* DiscoverEnter is lines 97-166: resolve the listing, navigate unless     *)
(* parked there, the best-effort Recent tab, the login-wall check, and the *)
(* locals of the loop.  env says what the page does.                       *)
(***************************************************************************)
EnterEnvs == {"ok", "navTimeout", "loginWall"}

\* lines 150-167: where the call goes after the login-wall check, n its maxPosts
AfterWallCheck_IgnoresWall(wall, n) == IF 0 < n THEN "loop" ELSE "returned"

AfterWallCheck(wall, n) ==
  IF wall THEN "raised"                 \* lines 157-160
  ELSE IF 0 < n THEN "loop"             \* line 167, first test
  ELSE "returned"

DiscoverEnter(c, n, caller, env) ==
  LET su == SearchUrl(c)
      mustNav == ~isOnSearchPage \/ currentSearchUrl # su
  IN
  /\ dMax' = n
  /\ dCaller' = caller
  /\ posts' = <<>>
  /\ consecutiveFailedScrolls' = 0
  /\ grown' = 0
  /\ IF su = NULL
     THEN \* line 105
          /\ dpc' = "raised"
          /\ needsLogin' = FALSE
          /\ UNCHANGED <<isOnSearchPage, currentSearchUrl, url>>
     ELSE IF mustNav /\ env = "navTimeout"
     THEN \* page.goto throws, line 111
          /\ dpc' = "raised"
          /\ needsLogin' = FALSE
          /\ UNCHANGED <<isOnSearchPage, currentSearchUrl, url>>
     ELSE /\ IF mustNav
             THEN /\ url' = ListingUrl(su)
                  /\ isOnSearchPage' = TRUE
                  /\ currentSearchUrl' = su
             ELSE UNCHANGED <<isOnSearchPage, currentSearchUrl, url>>
          /\ needsLogin' = (env = "loginWall")
          /\ dpc' = AfterWallCheck(env = "loginWall", n)
  /\ UNCHANGED <<likedPosts, everLiked, allDiscoveredPosts, emitted,
                 lvars, cvars>>

\* Leaving the loop normally, lines 229-230: the batch goes to the caller.
DiscoverReturn(b) ==
  /\ dpc' = "returned"
  /\ emitted' = Emit(emitted, b)

\* what the steps of the loop leave alone
DiscoverFrame == <<likedPosts, everLiked, isOnSearchPage, currentSearchUrl, url,
                   dMax, dCaller, needsLogin, lvars, cvars, rvars>>

\* One pass of lines 168-202: read the anchors, add the new ones, stop when full.
DiscoverExtract ==
  /\ dpc = "loop"
  /\ Len(posts) < dMax
  /\ \E links \in LinkSeqs :
       LET r == AddNewPosts(posts, allDiscoveredPosts, ExtractLinks(links), dMax) IN
       /\ posts' = r.posts
       /\ allDiscoveredPosts' = r.seen
       /\ IF Len(r.posts) >= dMax
          THEN DiscoverReturn(r.posts)
          ELSE /\ dpc' = "scroll"
               /\ UNCHANGED emitted
  /\ UNCHANGED <<DiscoverFrame, consecutiveFailedScrolls, grown>>

\* lines 216-223: the two height readings are equal
ScrollUnchanged_NoBreak ==
  /\ consecutiveFailedScrolls' = Min(consecutiveFailedScrolls + 1, maxConsecutiveFailedScrolls + 1)
  /\ dpc' = "loop"
  /\ UNCHANGED emitted

ScrollUnchanged ==
  /\ consecutiveFailedScrolls' = consecutiveFailedScrolls + 1
  /\ IF consecutiveFailedScrolls + 1 >= maxConsecutiveFailedScrolls
     THEN DiscoverReturn(posts)
     ELSE /\ dpc' = "loop"
          /\ UNCHANGED emitted

\* lines 224-226: the height changed
ScrollChanged_NoReset ==
  /\ consecutiveFailedScrolls' = consecutiveFailedScrolls
  /\ dpc' = "loop"
  /\ UNCHANGED emitted

ScrollChanged ==
  /\ consecutiveFailedScrolls' = 0
  /\ dpc' = "loop"
  /\ UNCHANGED emitted

\* lines 204-227: scroll to the bottom, read the height twice
DiscoverScrollFail ==
  /\ dpc = "scroll"
  /\ ScrollUnchanged
  /\ UNCHANGED <<DiscoverFrame, allDiscoveredPosts, posts, grown>>

DiscoverScrollGrow ==
  /\ dpc = "scroll"
  /\ grown < MaxGrow
  /\ grown' = grown + 1
  /\ ScrollChanged
  /\ UNCHANGED <<DiscoverFrame, allDiscoveredPosts, posts>>

\* a page.evaluate of the loop throws (lines 172, 206, 212, 214): the locals
\* of the call are lost, what was added to allDiscoveredPosts stays
DiscoverLoopRaise ==
  /\ dpc \in {"loop", "scroll"}
  /\ dpc' = "raised"
  /\ posts' = <<>>
  /\ consecutiveFailedScrolls' = 0
  /\ grown' = 0
  /\ UNCHANGED <<DiscoverFrame, allDiscoveredPosts, emitted>>

\* the frame of the call is gone once the caller has its result
DropDiscoverFrame ==
  /\ dpc' = "idle"
  /\ dMax' = 0
  /\ posts' = <<>>
  /\ consecutiveFailedScrolls' = 0
  /\ grown' = 0
  /\ dCaller' = "api"
  /\ needsLogin' = FALSE

(***************************************************************************)
(* Direct callers of the exported functions.                               *)
(***************************************************************************)
CallDiscover ==
  /\ Idle
  /\ \E c \in Criteria, n \in 0..MaxBatch, env \in EnterEnvs :
       DiscoverEnter(c, n, "api", env)
  /\ UNCHANGED rvars

ApiTakeDiscover ==
  /\ dpc \in {"returned", "raised"}
  /\ dCaller = "api"
  /\ DropDiscoverFrame
  /\ UNCHANGED <<likedPosts, everLiked, gvars, url, emitted,
                 lvars, cvars, rvars>>

\* prevLike keeps the call before this one
CallLike ==
  /\ Idle
  /\ \E i \in Items, e \in LikeEnvs : instagramLike(i, e)
  /\ prevLike' = lLast
  /\ lpc' = "returned"
  /\ UNCHANGED <<gvars, dvars, emitted, cvars, rvars>>

ApiTakeLike ==
  /\ lpc = "returned"
  /\ lpc' = "idle"
  /\ UNCHANGED <<likedPosts, everLiked, gvars, url, dvars, emitted,
                 lLast, prevLike, cvars, rvars>>

CallComment ==
  /\ Idle
  /\ \E i \in Items, skipNav \in BOOLEAN, d \in Definitions, e \in CommentEnvs :
       instagramComment(i, skipNav, d, e)
  /\ cpc' = "returned"
  /\ UNCHANGED <<likedPosts, everLiked, gvars, dvars, emitted, lvars, rvars>>

ApiTakeComment ==
  /\ cpc = "returned"
  /\ cpc' = "idle"
  /\ UNCHANGED <<likedPosts, everLiked, gvars, url, dvars, emitted,
                 lvars, cLast, rvars>>

\* a call of ensureInstagramLoggedIn on a page that is anywhere
CallLogin ==
  /\ Idle
  /\ \E e \in EnsureEnvs : ensureInstagramLoggedIn(e)
  /\ lgpc' = "returned"
  /\ UNCHANGED <<likedPosts, everLiked, gvars, dvars, emitted, lvars, cvars,
                 rpc, rcfg, rctr, batch, cur, likedSuccessfully, result, curCache, curGate,
                 undisturbed, runs, hist, opc, loginCalls, loginRet, canon>>

\* bot.js line 800: the check-session action asks for the status
CallCheckSession ==
  /\ Idle
  /\ \E nav \in {"ok", "raise"}, p \in PageSignals : checkSessionStatus(nav, p)
  /\ lgpc' = "returned"
  /\ UNCHANGED <<likedPosts, everLiked, gvars, dvars, emitted, lvars, cvars,
                 rpc, rcfg, rctr, batch, cur, likedSuccessfully, result, curCache, curGate,
                 undisturbed, runs, hist, opc, loginCalls, loginRet, canon>>

ApiTakeLogin ==
  /\ lgpc = "returned"
  /\ lgpc' = "idle"
  /\ UNCHANGED <<likedPosts, everLiked, gvars, url, dvars, emitted, lvars, cvars,
                 rpc, rcfg, rctr, batch, cur, likedSuccessfully, result, curCache, curGate,
                 undisturbed, runs, hist, opc, lgLast, loginCalls, loginRet, canon>>

(***************************************************************************)
(* runAction with action 'auto-comment', bot.js lines 513-774.             *)
(***************************************************************************)
TargetReached_OffByOne == successfulComments > maxPosts

\* successfulComments >= maxPosts: lines 598 (negated), 620, 739, 755
TargetReached == successfulComments >= maxPosts

\* line 599
BatchSize(n) == Min(BatchCap, n * 2)

\* lines 774 and 823-825: what the caller gets
Completed == [ok |-> TRUE, message |-> "completed",
              successful |-> successfulComments, total |-> attempts]
Failed == [ok |-> FALSE, message |-> "error", successful |-> 0, total |-> 0]

ReportEnvs == {"ok", "raise"}

\* lines 514-596: launch, load the session, log in, reset the discovery state,
\* the first progress report, the counters.  An exception of any of them is
\* caught at line 823.
RunEnvs == {"ok", "launchFail"}

\* lines 826-832, the finally block: with headful set and a browser launched
\* the browser is closed, and the close succeeds or throws; "none" is a
\* headless run or a launch that failed
CloseEnvs == {"none", "closed", "raise"}

\* where runAction ends: an exception of the finally block replaces the value
\* being returned and reaches the caller
Leave(close) == IF close = "raise" THEN "escaped" ELSE "done"

\* lines 513-547: launchBrowser, setupPage and loadSession; a failure of
\* them reaches the catch of lines 823-825 with no browser to close.  The
\* page of the run is a new one.  as: the actions the caller may ask for.
RunBegin(as) ==
  /\ Idle
  /\ runs' = runs + 1
  /\ \E a \in as, n \in 0..MaxTarget, c \in Criteria, env \in RunEnvs :
       \E lp \in (IF a = "auto-comment" THEN BOOLEAN ELSE {FALSE}) :
       /\ action' = a
       /\ maxPosts' = n
       /\ criteria' = c
       /\ likePost' = lp
       /\ url' = IF env = "launchFail" THEN url ELSE Blank
       /\ rpc' = IF env = "ok" THEN "login" ELSE "done"
       /\ result' = IF env = "ok" THEN NoResult ELSE Failed
       /\ undisturbed' = (env = "ok")
  /\ repFailed' = FALSE
  /\ visited' = {}
  /\ successfulComments' = 0
  /\ attempts' = 0
  /\ consecutiveEmptyBatches' = 0
  /\ batch' = <<>>
  /\ cur' = 0
  /\ likedSuccessfully' = FALSE
  /\ curCache' = "none"
  /\ curGate' = "none"
  /\ UNCHANGED <<likedPosts, everLiked, gvars, emitted, dvars, lvars, cvars, opc, gate, canon>>

\* runAction({ action: 'auto-comment', ... })
RunStart ==
  /\ runs < MaxRuns
  /\ RunBegin({"auto-comment"})

\* runAction({ action: 'discover' | 'like' | 'comment', ... }), one call
\* after another in the same process
RunStartAction ==
  /\ runs < MaxActionRuns
  /\ RunBegin({"discover", "like", "comment"})

\* line 566: what follows `await ensureInstagramLoggedIn(...)`; the await
\* lets only a returned value through, an exception goes to line 823
GateOpen_Always(ret) == TRUE

GateOpen(ret) == ret = "true"

\* what the login call of a run can meet: a session that is on or off, with
\* or without credentials, and the page after the submit
RunLoginEnvs ==
  {e \in EnsureEnvs :
     /\ e.loginForm = "ok"
     /\ e.pre.route = "home" /\ e.pre.form = "none" /\ e.pre.title = "plain"
     /\ e.post.form = "none" /\ e.post.title = "plain"
     /\ e.errors = "none"}

\* lines 566-596: the login gate, taken by every action but 'login'; then,
\* for 'auto-comment', resetDiscoveryState (581), the first progress report
\* (583-589) and the locals of the loop
RunLogin ==
  /\ rpc = "login"
  /\ \E e \in RunLoginEnvs, rep \in ReportEnvs, close \in CloseEnvs :
       LET o == EnsureOutcome(url, e) IN
       /\ url' = EnsureUrl(e, o)
       /\ loginCalls' = loginCalls + 1
       /\ loginRet' = o.ret
       /\ IF ~GateOpen(o.ret)
          THEN /\ rpc' = Leave(close)
               /\ result' = IF Leave(close) = "escaped" THEN NoResult ELSE Failed
               /\ undisturbed' = FALSE
               /\ UNCHANGED <<gvars, emitted, repFailed>>
          ELSE IF action = "auto-comment"
          THEN /\ DoReset
               /\ repFailed' = (rep = "raise")
               /\ rpc' = IF rep = "ok" THEN "loophead" ELSE Leave(close)
               /\ result' = IF rep = "ok" \/ Leave(close) = "escaped"
                            THEN NoResult ELSE Failed
               /\ undisturbed' = (rep = "ok")
          ELSE /\ rpc' = IF action = "comment" THEN "actComment" ELSE "actDiscover"
               /\ UNCHANGED <<gvars, emitted, repFailed, result, undisturbed>>
  /\ UNCHANGED <<likedPosts, everLiked, dvars, lvars, cvars, rcfg, rctr, batch, cur,
                 likedSuccessfully, curCache, curGate, runs, visited, opc, lgpc, lgLast, canon>>

\* line 598, the condition false
RunLoopExit ==
  /\ rpc = "loophead"
  /\ TargetReached
  /\ rpc' = "finish"
  /\ UNCHANGED <<likedPosts, everLiked, gvars, url, dvars, emitted,
                 lvars, cvars, rcfg, rctr, batch, cur, likedSuccessfully, result,
                 curCache, curGate, undisturbed, runs, hist, opc, gate, canon>>

\* lines 598-603: the next batch is asked for
RunFetchBatch ==
  /\ rpc = "loophead"
  /\ ~TargetReached
  /\ \E env \in EnterEnvs : DiscoverEnter(criteria, BatchSize(maxPosts), "run", env)
  /\ rpc' = "discovering"
  /\ UNCHANGED <<rcfg, rctr, batch, cur, likedSuccessfully, result, curCache, curGate,
                 undisturbed, runs, hist, opc, gate, canon>>

\* lines 605-617: what a batch of n posts makes of the counter c
EmptyBatchCount_NeverCounts(n, c) == 0

EmptyBatchCount_NoReset(n, c) == IF n = 0 THEN c + 1 ELSE c

EmptyBatchCount(n, c) == IF n = 0 THEN c + 1 ELSE 0

\* lines 605-617: the batch is back
RunTakeBatch ==
  /\ rpc = "discovering"
  /\ dpc = "returned"
  /\ dCaller = "run"
  /\ consecutiveEmptyBatches' = EmptyBatchCount(Len(posts), consecutiveEmptyBatches)
  /\ IF Len(posts) = 0
     THEN /\ rpc' = IF consecutiveEmptyBatches' >= maxConsecutiveEmptyBatches
                    THEN "finish" ELSE "loophead"
          /\ undisturbed' = FALSE
     ELSE /\ rpc' = "forhead"
          /\ UNCHANGED undisturbed
  /\ batch' = posts
  /\ DropDiscoverFrame
  /\ UNCHANGED <<likedPosts, everLiked, gvars, url, emitted, lvars, cvars,
                 rcfg, successfulComments, attempts, cur, likedSuccessfully, result,
                 curCache, curGate, runs, hist, opc, gate, canon>>

\* lines 757-760: discovery threw; the loop is left
RunDiscoverRaised ==
  /\ rpc = "discovering"
  /\ dpc = "raised"
  /\ dCaller = "run"
  /\ rpc' = "finish"
  /\ undisturbed' = FALSE
  /\ UNCHANGED <<likedPosts, everLiked, gvars, url, dvars, emitted,
                 lvars, cvars, rcfg, rctr, batch, cur, likedSuccessfully, result,
                 curCache, curGate, runs, hist, opc, gate, canon>>

\* lines 619-631 and 755: the head of the for loop, the per-item progress
\* report (outside the inner try: if it throws, line 757 catches and breaks)
RunForHead ==
  /\ rpc = "forhead"
  /\ IF batch = <<>> \/ TargetReached
     THEN /\ rpc' = IF TargetReached THEN "finish" ELSE "loophead"
          /\ cur' = 0
          /\ UNCHANGED <<attempts, batch, undisturbed, hist>>
     ELSE \E rep \in ReportEnvs :
          /\ attempts' = attempts + 1
          /\ cur' = Head(batch)
          /\ batch' = Tail(batch)
          /\ visited' = visited \cup {Head(batch)}
          /\ rpc' = IF rep = "raise" THEN "finish" ELSE "content"
          /\ undisturbed' = (undisturbed /\ rep = "ok")
          /\ repFailed' = (repFailed \/ rep = "raise")
  /\ curCache' = "none"
  /\ curGate' = "none"
  /\ likedSuccessfully' = FALSE
  /\ lLast' = NoLike
  /\ cLast' = NoComment
  /\ UNCHANGED <<likedPosts, everLiked, gvars, url, dvars, emitted,
                 lpc, prevLike, cpc, rcfg, successfulComments,
                 consecutiveEmptyBatches, result, runs, opc, gate, canon>>

\* lines 748-751: the catch of the per-item try logs and goes on with the
\* next item of the batch
AfterItemError_Break == "finish"

AfterItemError == "forhead"

\* lines 637-663: getPostContent (lines 277-358: navigate, read the text, '' on
\* any error) and the two content gates
ContentEnvs == [nav : {"ok", "raise"}, words : 0..MinWords, video : {"no", "yes", "raise"}]
WordCount(e) == IF e.nav = "raise" THEN 0 ELSE e.words
GateVerdict(e) == IF WordCount(e) < MinWords THEN "short"
                  ELSE IF e.video = "yes" THEN "video"
                  ELSE IF e.video = "raise" THEN "raise"
                  ELSE "pass"

PassesGates_NoWordGate(e) == e.video = "no"

PassesGates(e) == WordCount(e) >= MinWords /\ e.video = "no"

RunGetContent ==
  /\ rpc = "content"
  /\ \E e \in ContentEnvs :
       /\ url' = IF e.nav = "ok" THEN ItemUrl(cur) ELSE url
       /\ rpc' = IF PassesGates(e) THEN "cache"
                 ELSE IF e.video = "raise" /\ WordCount(e) >= MinWords THEN AfterItemError
                 ELSE "forhead"
       /\ undisturbed' = (undisturbed /\ PassesGates(e))
       /\ curGate' = GateVerdict(e)
  /\ UNCHANGED <<likedPosts, everLiked, gvars, dvars, emitted,
                 lvars, cvars, rcfg, rctr, batch, cur, likedSuccessfully, result,
                 curCache, runs, hist, opc, gate, canon>>

\* lines 666-671: the orchestrator's own cache lookup; a lookup that throws is
\* caught at line 744 and the item is left
AlreadyCommentedSkip_Never(ans) == FALSE

AlreadyCommentedSkip(ans) == ans = "hit"

RunCacheCheck ==
  /\ rpc = "cache"
  /\ \E ans \in CacheAnswers :
       /\ curCache' = ans
       /\ UNCHANGED curGate
       /\ rpc' = IF ans = "raise" THEN AfterItemError
                 ELSE IF AlreadyCommentedSkip(ans) THEN "forhead"
                 ELSE IF likePost THEN "like" ELSE "comment"
       /\ undisturbed' = (undisturbed /\ ans = "miss")
  /\ UNCHANGED <<likedPosts, everLiked, gvars, url, dvars, emitted,
                 lvars, cvars, rcfg, rctr, batch, cur, likedSuccessfully, result, runs, hist, opc, gate, canon>>

\* lines 688-706: the favorite, when asked for; its failure is logged only
RunLike ==
  /\ rpc = "like"
  /\ \E e \in LikeEnvs : instagramLike(cur, e)
  /\ likedSuccessfully' = (lLast'.ret = "true")
  /\ rpc' = "comment"
  /\ UNCHANGED <<gvars, dvars, emitted, lpc, prevLike, cvars,
                 rcfg, rctr, batch, cur, result, curCache, curGate, undisturbed, runs, hist, opc, gate, canon>>

\* lines 708-725: the reply and the count of it
\* lines 711-725: what the loop counts, given what the call gave back; an
\* exception of the call goes to the catch of lines 748-751
CountsAsSuccess_SkippedToo(c) == ~c.raised /\ (c.outcome.skipped \/ c.outcome.success)

CountsAsSuccess(c) == ~c.raised /\ ~c.outcome.skipped /\ c.outcome.success

RunComment ==
  /\ rpc = "comment"
  /\ \E d \in Definitions, e \in CommentEnvs :
       instagramComment(cur, likedSuccessfully, d, e)
  /\ IF CountsAsSuccess(cLast')
     THEN /\ successfulComments' = successfulComments + 1
          /\ rpc' = "reportSuccess"
          /\ UNCHANGED undisturbed
     ELSE /\ rpc' = IF cLast'.raised THEN AfterItemError ELSE "forhead"
          /\ undisturbed' = FALSE
          /\ UNCHANGED successfulComments
  /\ lLast' = NoLike
  /\ likedSuccessfully' = FALSE
  /\ UNCHANGED <<likedPosts, everLiked, gvars, dvars, emitted,
                 lpc, prevLike, cpc, rcfg, attempts, consecutiveEmptyBatches,
                 batch, cur, result, curCache, curGate, runs, hist, opc, gate, canon>>

\* lines 727-752: the success report (inside the inner try), the check of the
\* target, the delay
RunReportSuccess ==
  /\ rpc = "reportSuccess"
  /\ \E rep \in ReportEnvs :
       /\ rpc' = IF rep = "ok" /\ TargetReached THEN "finish" ELSE "forhead"
       /\ undisturbed' = (undisturbed /\ rep = "ok")
       /\ repFailed' = (repFailed \/ rep = "raise")
  /\ cLast' = NoComment
  /\ UNCHANGED <<likedPosts, everLiked, gvars, url, dvars, emitted,
                 lvars, cpc, rcfg, rctr, batch, cur, likedSuccessfully, result,
                 curCache, curGate, runs, visited, opc, gate, canon>>

\* lines 763-774, 823-825 when the last report throws, then the finally block
\* of lines 826-832
RunFinish ==
  /\ rpc = "finish"
  /\ \E rep \in ReportEnvs, close \in CloseEnvs :
       /\ rpc' = Leave(close)
       /\ result' = IF Leave(close) = "escaped" THEN NoResult
                    ELSE IF rep = "ok" THEN Completed ELSE Failed
       /\ undisturbed' = (undisturbed /\ rep = "ok" /\ close # "raise")
       /\ repFailed' = (repFailed \/ rep = "raise")
  /\ UNCHANGED <<likedPosts, everLiked, gvars, url, dvars, emitted,
                 lvars, cvars, rcfg, rctr, batch, cur, likedSuccessfully,
                 curCache, curGate, runs, visited, opc, gate, canon>>

\* the caller has the result; the frame of the run is gone
RunTakeResult ==
  /\ rpc \in {"done", "escaped"}
  /\ rpc' = "idle"
  /\ maxPosts' = 0
  /\ criteria' = NoCriteria
  /\ likePost' = FALSE
  /\ action' = "none"
  /\ loginCalls' = 0
  /\ loginRet' = "none"
  /\ successfulComments' = 0
  /\ attempts' = 0
  /\ consecutiveEmptyBatches' = 0
  /\ batch' = <<>>
  /\ cur' = 0
  /\ likedSuccessfully' = FALSE
  /\ result' = NoResult
  /\ curCache' = "none"
  /\ curGate' = "none"
  /\ undisturbed' = TRUE
  /\ lLast' = NoLike
  /\ cLast' = NoComment
  /\ visited' = {}
  /\ repFailed' = FALSE
  /\ DropDiscoverFrame
  /\ UNCHANGED <<likedPosts, everLiked, gvars, url, emitted,
                 lpc, prevLike, cpc, runs, opc, lgpc, lgLast, canon>>

(***************************************************************************)
(* A second run of runAction in the same process, with a page of its own.  *)
(* The discovery state of src/instagram-functions.js lines 8-12 belongs to *)
(* the module, so the steps of the second run read and write the same      *)
(* allDiscoveredPosts, isOnSearchPage and currentSearchUrl.  Its steps fit *)
(* between any two steps of the first run, each of which ends at an await. *)
(***************************************************************************)
OtherFrame == <<likedPosts, everLiked, url, dvars, emitted, lvars, cvars,
                rpc, rcfg, rctr, batch, cur, likedSuccessfully, result, curCache, curGate,
                undisturbed, runs, hist, gate, canon>>

\* bot.js line 581 in the second run: resetDiscoveryState()
OtherStart ==
  /\ opc = "idle"
  /\ opc' = "run"
  /\ allDiscoveredPosts' = {}
  /\ isOnSearchPage' = FALSE
  /\ currentSearchUrl' = NULL
  /\ UNCHANGED OtherFrame

\* bot.js line 603 in the second run: a discoverInstagramPosts call on its own
\* page, here its entry (lines 108-115) and its first pass over the anchors
\* (lines 168-197)
OtherDiscover ==
  /\ opc = "run"
  /\ \E c \in Criteria, n \in 1..MaxBatch, links \in LinkSeqs :
       LET su == SearchUrl(c) IN
       /\ su # NULL
       /\ isOnSearchPage' = TRUE
       /\ currentSearchUrl' = su
       /\ allDiscoveredPosts' =
            AddNewPosts(<<>>, allDiscoveredPosts, ExtractLinks(links), n).seen
  /\ UNCHANGED <<opc, OtherFrame>>

\* the second run returns
OtherEnd ==
  /\ opc = "run"
  /\ opc' = "idle"
  /\ UNCHANGED <<gvars, OtherFrame>>

(***************************************************************************)
(* Specifications.                                                         *)
(*   Spec           one process running auto-comment actions               *)
(*   FairSpec       the same, every started call and run keeps stepping    *)
(*   SpecDiscover   any sequence of direct discover calls and resets       *)
(*   FairSpecDiscover  the same, a started call keeps stepping             *)
(*   SpecLike       any sequence of direct instagramLike calls             *)
(*   SpecComment    any sequence of direct instagramComment calls          *)
(*   SpecConcurrent discover calls of one run while a second run steps     *)
(*   SpecLogin      any sequence of login and session-status calls         *)
(*   SpecActions    runs of the 'discover' and 'like' actions in a row     *)
(*   SpecCanon      the link canonicalization applied to pairs of hrefs    *)
(***************************************************************************)
DiscoverStep ==
  \/ DiscoverExtract
  \/ DiscoverScrollFail
  \/ DiscoverScrollGrow
  \/ DiscoverLoopRaise

\* what the 'discover' and the 'like' action return
Found(n) == [ok |-> TRUE, message |-> "found", successful |-> 0, total |-> n]
Liked(r) == [ok |-> TRUE, message |-> "liked", successful |-> r.successful,
             total |-> r.total]

\* lines 569 and 778: the one discoverInstagramPosts call of the action
ActDiscover ==
  /\ rpc = "actDiscover"
  /\ \E env \in EnterEnvs : DiscoverEnter(criteria, maxPosts, "run", env)
  /\ rpc' = "actDiscovering"
  /\ UNCHANGED <<rcfg, rctr, batch, cur, likedSuccessfully, result, curCache, curGate,
                 undisturbed, runs, hist, opc, gate, canon>>

\* lines 570 and 779-781: the posts are back; 'discover' returns them
ActTakePosts ==
  /\ rpc = "actDiscovering"
  /\ dpc = "returned"
  /\ dCaller = "run"
  /\ batch' = posts
  /\ IF action = "discover"
     THEN \E close \in CloseEnvs :
            /\ rpc' = Leave(close)
            /\ result' = IF Leave(close) = "escaped" THEN NoResult
                         ELSE Found(Len(posts))
     ELSE /\ rpc' = "actLike"
          /\ result' = result
  /\ DropDiscoverFrame
  /\ UNCHANGED <<likedPosts, everLiked, gvars, url, emitted, lvars, cvars,
                 rcfg, rctr, cur, likedSuccessfully, curCache, curGate, undisturbed,
                 runs, hist, opc, gate, canon>>

\* lines 823-825: the discovery call of the action threw
ActDiscoverRaised ==
  /\ rpc = "actDiscovering"
  /\ dpc = "raised"
  /\ dCaller = "run"
  /\ \E close \in CloseEnvs :
       /\ rpc' = Leave(close)
       /\ result' = IF Leave(close) = "escaped" THEN NoResult ELSE Failed
  /\ undisturbed' = FALSE
  /\ UNCHANGED <<likedPosts, everLiked, gvars, url, dvars, emitted,
                 lvars, cvars, rcfg, rctr, batch, cur, likedSuccessfully,
                 curCache, curGate, runs, hist, opc, gate, canon>>

\* lines 781-790: one iteration of the for loop of 'like'; whatever
\* instagramLike returns is pushed as a success, an exception as a failure
ActLike ==
  /\ rpc = "actLike"
  /\ batch # <<>>
  /\ \E e \in LikeEnvs : instagramLike(Head(batch), e)
  /\ batch' = Tail(batch)
  /\ result' = [result EXCEPT !.total = @ + 1,
                              !.successful = IF lLast'.ret = "raise" THEN @ ELSE @ + 1]
  /\ UNCHANGED <<gvars, dvars, emitted, lpc, prevLike, cvars, rpc, rcfg, rctr, cur,
                 likedSuccessfully, curCache, curGate, undisturbed, runs, hist, opc, gate, canon>>

\* line 792: the for loop is over
ActLikeDone ==
  /\ rpc = "actLike"
  /\ batch = <<>>
  /\ \E close \in CloseEnvs :
       /\ rpc' = Leave(close)
       /\ result' = IF Leave(close) = "escaped" THEN NoResult ELSE Liked(result)
  /\ UNCHANGED <<likedPosts, everLiked, gvars, url, dvars, emitted,
                 lvars, cvars, rcfg, rctr, batch, cur, likedSuccessfully,
                 curCache, curGate, undisturbed, runs, hist, opc, gate, canon>>

Commented == [ok |-> TRUE, message |-> "commented", successful |-> 0, total |-> 0]

\* lines 796-798 of 'comment': the url option, getSessionAssistantId and, with
\* useAI, getPostContent (which navigates to the url and gives '' when that
\* fails) and generateAIComment.  given: the caller's text is used; ai: the
\* page was read and a text generated; aiNoPage: the navigation failed and a
\* text was generated from ''; raise: getSessionAssistantId threw; aiRaise:
\* generateAIComment threw after the page was read.
GenEnvs == {"given", "ai", "aiNoPage", "raise", "aiRaise"}

ActCommentPrepare ==
  /\ rpc = "actComment"
  /\ \E i \in Items, gen \in GenEnvs, close \in CloseEnvs :
       /\ cur' = i
       /\ url' = IF gen \in {"ai", "aiRaise"} THEN ItemUrl(i) ELSE url
       /\ IF gen \in {"raise", "aiRaise"}
          THEN /\ rpc' = Leave(close)
               /\ result' = IF Leave(close) = "escaped" THEN NoResult ELSE Failed
          ELSE /\ rpc' = "actCommentCall"
               /\ UNCHANGED result
  /\ UNCHANGED <<likedPosts, everLiked, gvars, dvars, emitted,
                 lvars, cvars, rcfg, rctr, batch, likedSuccessfully,
                 curCache, curGate, undisturbed, runs, hist, opc, gate, canon>>

\* lines 800-801: instagramComment(page, url, finalComment) is awaited and what
\* it returns is dropped; only an exception reaches the catch of line 823
ActComment ==
  /\ rpc = "actCommentCall"
  /\ \E d \in Definitions, e \in CommentEnvs : instagramComment(cur, FALSE, d, e)
  /\ \E close \in CloseEnvs :
       /\ rpc' = Leave(close)
       /\ result' = IF Leave(close) = "escaped" THEN NoResult
                    ELSE IF cLast'.raised THEN Failed ELSE Commented
  /\ UNCHANGED <<likedPosts, everLiked, gvars, dvars, emitted,
                 lvars, cpc, rcfg, rctr, batch, cur, likedSuccessfully,
                 curCache, curGate, undisturbed, runs, hist, opc, gate, canon>>

ActStep ==
  \/ ActDiscover
  \/ ActTakePosts
  \/ ActDiscoverRaised
  \/ ActLike
  \/ ActLikeDone
  \/ ActCommentPrepare
  \/ ActComment

RunStep ==
  \/ RunLogin
  \/ RunLoopExit
  \/ RunFetchBatch
  \/ RunTakeBatch
  \/ RunDiscoverRaised
  \/ RunForHead
  \/ RunGetContent
  \/ RunCacheCheck
  \/ RunLike
  \/ RunComment
  \/ RunReportSuccess
  \/ RunFinish

Next ==
  \/ RunStart
  \/ RunTakeResult
  \/ DiscoverStep
  \/ RunStep

Spec == Init /\ [][Next]_vars

FairSpec == Spec /\ WF_vars(DiscoverStep) /\ WF_vars(RunStep)

NextDiscover ==
  \/ resetDiscoveryState
  \/ CallDiscover
  \/ ApiTakeDiscover
  \/ DiscoverStep

SpecDiscover == Init /\ [][NextDiscover]_vars

\* the first run's discover calls (its reset only between calls) with the
\* steps of a second run in between
NextConcurrent ==
  \/ resetDiscoveryState
  \/ CallDiscover
  \/ ApiTakeDiscover
  \/ DiscoverStep
  \/ OtherStart
  \/ OtherDiscover
  \/ OtherEnd

SpecConcurrent == Init /\ [][NextConcurrent]_vars

FairSpecDiscover == SpecDiscover /\ WF_vars(DiscoverStep)

NextLike ==
  \/ CallLike
  \/ ApiTakeLike

SpecLike == Init /\ [][NextLike]_vars

NextComment ==
  \/ CallComment
  \/ ApiTakeComment

SpecComment == Init /\ [][NextComment]_vars

\* the extraction of one discover call maps two anchors of the page
ApplyCanon ==
  /\ cnpc = "idle"
  /\ \E x \in AllHrefs, y \in AllHrefs, d \in Definitions :
       /\ cnIn' = [x |-> x, y |-> y, defn |-> d]
       /\ cnOut' = [x |-> Canon(d, x), xx |-> Canon(d, Canon(d, x)), y |-> Canon(d, y)]
  /\ cnpc' = "returned"
  /\ UNCHANGED <<likedPosts, everLiked, gvars, url, dvars, emitted, lvars, cvars,
                 rpc, rcfg, rctr, batch, cur, likedSuccessfully, result, curCache, curGate,
                 undisturbed, runs, hist, opc, gate>>

TakeCanon ==
  /\ cnpc = "returned"
  /\ cnpc' = "idle"
  /\ cnIn' = NoCanonIn
  /\ cnOut' = NoCanonOut
  /\ UNCHANGED <<likedPosts, everLiked, gvars, url, dvars, emitted, lvars, cvars,
                 rpc, rcfg, rctr, batch, cur, likedSuccessfully, result, curCache, curGate,
                 undisturbed, runs, hist, opc, gate>>

NextCanon ==
  \/ ApplyCanon
  \/ TakeCanon

SpecCanon == Init /\ [][NextCanon]_vars

\* runs of the 'discover' and of the 'like' action, one after another
NextActions ==
  \/ RunStartAction
  \/ RunLogin
  \/ ActStep
  \/ DiscoverStep
  \/ RunTakeResult

SpecActions == Init /\ [][NextActions]_vars

NextLogin ==
  \/ CallLogin
  \/ CallCheckSession
  \/ ApiTakeLogin

SpecLogin == Init /\ [][NextLogin]_vars

(***************************************************************************)
(* Properties.                                                             *)
(***************************************************************************)

C3_ShortBatchAfterTenFailedScrolls ==
  /\ [][/\ (dpc = "scroll" /\ consecutiveFailedScrolls' >= maxConsecutiveFailedScrolls)
           => (dpc' = "returned" /\ posts' = posts)
        /\ (dpc # "returned" /\ dpc' = "returned" /\ Len(posts') < dMax')
           => consecutiveFailedScrolls' = maxConsecutiveFailedScrolls]_vars
  /\ (dpc \in {"loop", "scroll"}) ~> (dpc \in {"returned", "raised"})

\* a batch shorter than asked for, and not empty, is returned
C3_Witness ==
  /\ dpc = "returned"
  /\ 0 < Len(posts)
  /\ Len(posts) < dMax
  /\ consecutiveFailedScrolls = maxConsecutiveFailedScrolls

\* C4: the batch loop of an auto-comment run is left only when the target is
\* reached, when 5 consecutive batches were empty, or when discovery raised.
C4_LoopLeftOnlyForCause ==
  rpc = "finish" => \/ successfulComments = maxPosts
                    \/ consecutiveEmptyBatches = maxConsecutiveEmptyBatches
                    \/ dpc = "raised"

\* C5: the count of successful replies never passes the target, and once it
\* equals the target no item is processed any more: no content extraction,
\* no cache lookup, no favorite, no reply.
C5_NeverPastTarget ==
  /\ successfulComments <= maxPosts
  /\ rpc \in {"content", "cache", "like", "comment"} => successfulComments < maxPosts

\* the target is reached while items of the batch are still unvisited
C5_Witness ==
  /\ rpc = "finish"
  /\ maxPosts > 0
  /\ successfulComments = maxPosts
  /\ batch # <<>>

\* C6: a run in which discovery keeps giving fresh items, every item passes
\* the gates, no cache lookup hits, every reply succeeds and nothing raises
\* ends, and its result reports as many successes as the target.
C6_GoodRunReachesTarget ==
  /\ [](rpc = "done" /\ undisturbed
        => result.ok /\ result.successful = maxPosts)
  /\ (rpc = "loophead" /\ undisturbed) ~> (rpc = "done" \/ ~undisturbed)

\* such a run with the largest target has ended
C6_Witness ==
  /\ rpc = "done"
  /\ undisturbed
  /\ maxPosts = MaxTarget
  /\ result.successful = MaxTarget

\* C7: a run that got 5 empty batches from its start ends with 0 successes
\* and a result whose status says the content is exhausted, which is neither
\* the status of an error nor the one of a reached target.
C7_ExhaustedRunSaysSo ==
  (rpc = "done" /\ result.ok /\ attempts = 0
     /\ consecutiveEmptyBatches = maxConsecutiveEmptyBatches)
  => (result.successful = 0 /\ result.message = "content exhausted")

\* C8: when the cache lookup of instagramComment answers that the account
\* already replied to the item, the outcome is skipped and not a success, and
\* no navigation, scroll, typing, click or key press was made on the page.
C8_CachedReplySkipped ==
  cLast.cache = "hit" => /\ cLast.outcome.skipped
                         /\ ~cLast.outcome.success
                         /\ cLast.ops = {}

\* such a call, made by a caller that asked for the navigation
C8_Witness == cpc = "returned" /\ cLast.cache = "hit" /\ ~cLast.skipNav

\* C9: in a run, an item for which the cache lookup of the loop answers true
\* is left at once: the favorite and the reply are reached only by items the
\* lookup answered false for, and after the hit the loop is at its head again
\* with the rest of the batch, the page, the liked set and the count as they were.
C9_CachedItemSkipped ==
  /\ [](rpc \in {"like", "comment", "reportSuccess"} => curCache = "miss")
  /\ [][(rpc = "cache" /\ curCache' = "hit")
        => (rpc' = "forhead" /\ UNCHANGED <<batch, url, likedPosts, successfulComments>>)]_vars

\* an item was skipped on a hit and the batch has more items to go on with
C9_Witness == rpc = "forhead" /\ curCache = "hit" /\ batch # <<>> /\ ~TargetReached

\* C10, as the code has it: a call of instagramLike makes at most three
\* mutation attempts, and once a call on an item has returned success every
\* later call on that item returns success without any mutation attempt.
C10_MemoAfterSuccess ==
  lLast.ret # "none" => /\ lLast.muts <= 3
                        /\ lLast.before => (lLast.ret = "true" /\ lLast.muts = 0)

\* a second call on an item whose first call succeeded by a request or a click
C10_Witness ==
  /\ lpc = "returned"
  /\ lLast.before
  /\ prevLike.item = lLast.item
  /\ prevLike.muts >= 1

\* C10, as the spec has it: two calls in a row on the same item both return
\* success and make at most one mutation attempt between them.
C10_TwiceSucceedsWithOneAttempt ==
  (lLast.item # 0 /\ prevLike.item = lLast.item)
  => /\ prevLike.ret = "true"
     /\ lLast.ret = "true"
     /\ prevLike.muts + lLast.muts <= 1


(***************************************************************************)
(* C11: a call of instagramLike that attempted a strategy returns true     *)
(* only if the page was then seen to show the item as liked; the success   *)
(* signal of the strategy itself (an ok response) is not enough.           *)
(* Lines 589-592 and 620-623 return true on response.ok alone.             *)
(***************************************************************************)
C11_SuccessOnlyWhenObservedLiked ==
  (lLast.ret = "true" /\ lLast.muts >= 1) => lLast.verified

C13_SuccessOnlyWhenVerified ==
  /\ (~cLast.raised /\ cLast.outcome.success) => (cLast.checked /\ cLast.verified)
  /\ (cLast.checked /\ ~cLast.verified)
       => /\ ~cLast.raised
          /\ ~cLast.outcome.success
          /\ cLast.outcome.reason = VerificationFailed

(***************************************************************************)
(* C14: on the expected negative outcomes (the account already replied,    *)
(* the input not found after the one retry, the submit control not found)  *)
(* instagramComment does not raise: it returns success = false with a      *)
(* non-empty reason.  The second definition throws at lines 1797-1799 and  *)
(* its catch rethrows.                                                     *)
(***************************************************************************)
C14_NegativeOutcomesAreReturned ==
  cLast.gaveUp # "none" => /\ ~cLast.raised
                           /\ ~cLast.outcome.success
                           /\ cLast.outcome.reason # ""


C16_ItemFailureDoesNotEndRun ==
  [][/\ rpc \in {"content", "cache", "like", "comment"}
        => /\ rpc' \in {"cache", "like", "comment", "reportSuccess", "forhead"}
           /\ result' = result
     /\ (rpc = "forhead" /\ ~TargetReached /\ ~repFailed')
        => rpc' \in {"content", "loophead"}]_vars

\* the reply of an item has raised and the loop has items left
C16_Witness ==
  /\ rpc = "forhead"
  /\ cLast.raised
  /\ cLast.item = cur
  /\ batch # <<>>
  /\ ~repFailed


(***************************************************************************)
(* C17: when discovery raises during an auto-comment run, the run stops    *)
(* and its result reports a failure (ok = false) with the message of the   *)
(* error.  The handler of lines 757-760 only leaves the loop, and line 774 *)
(* then returns ok = true with the completion message.                     *)
(***************************************************************************)
C17_DiscoveryErrorReported ==
  /\ (rpc = "discovering" /\ dpc = "raised") => ENABLED RunDiscoverRaised
  /\ (rpc = "done" /\ dpc = "raised" /\ dCaller = "run")
       => /\ ~result.ok
          /\ result.message = Failed.message


(***************************************************************************)
(* C18: runAction never lets an exception reach its caller: whatever       *)
(* collaborator fails (the launch, the session load, the login, discovery, *)
(* the executor of the action, the close of the browser), the call returns *)
(* a result with an ok flag and a message.  The close of the browser is in *)
(* the finally block (lines 826-832), after the catch.                     *)
(***************************************************************************)
C18_NoExceptionEscapes ==
  /\ rpc # "escaped"
  /\ rpc = "done" => result.message \in {Completed.message, Failed.message}


(***************************************************************************)
(* C19: a reportProgress call that throws, at any of its call sites,       *)
(* changes nothing in the course of the run: the loop is still left only   *)
(* for one of its own reasons, and the run returns the result it returns   *)
(* when the reporter succeeds (the completion result).  The calls of lines *)
(* 583, 624 and 763 are not guarded.                                       *)
(***************************************************************************)
C19_ReporterFailureChangesNothing ==
  repFailed
  => /\ rpc = "finish" => \/ TargetReached
                          \/ consecutiveEmptyBatches = maxConsecutiveEmptyBatches
                          \/ dpc = "raised"
     /\ rpc = "done" => /\ result.ok
                        /\ result.message = Completed.message


(***************************************************************************)
(* C20: with two runs in one process, each on its own page and             *)
(* interleaved at the suspension points, a run is still never given the    *)
(* same item twice by discovery after its reset, and no reset or discover  *)
(* step of the other run changes the state that decides which items the    *)
(* run is given.  The state is shared by the module (lines 8-12).          *)
(***************************************************************************)
C20_ConcurrentRunsIndependent ==
  /\ [](\A i \in Items : emitted[i] < 2)
  /\ [][(OtherStart \/ OtherDiscover) => UNCHANGED gvars]_vars


(***************************************************************************)
(* C21: the login classification, in ensureInstagramLoggedIn and in        *)
(* checkSessionStatus, answers authenticated exactly when its four checks  *)
(* hold together: a navigation indicator is present, no login-form element *)
(* is present, the page is not on the login route, the title does not      *)
(* indicate login.  One check failing makes the answer not authenticated.  *)
(***************************************************************************)
C21_AuthenticatedIffFourChecks ==
  lgLast.classified
  => (lgLast.isLoggedIn <=> /\ lgLast.checks.chrome
                            /\ ~lgLast.checks.form
                            /\ ~lgLast.checks.route
                            /\ ~lgLast.checks.title)

\* a page on which only the title check fails, classified by checkSessionStatus
C21_Witness ==
  /\ lgpc = "returned"
  /\ lgLast.fn = "check"
  /\ lgLast.classified
  /\ lgLast.checks = [chrome |-> TRUE, form |-> FALSE, route |-> FALSE, title |-> TRUE]
  /\ ~lgLast.isLoggedIn

(***************************************************************************)
(* C22: when the first classification says not authenticated and the       *)
(* username or the password is absent, ensureInstagramLoggedIn raises the  *)
(* error of the missing credentials, before any navigation to the login    *)
(* route and before anything is typed into the credential fields.          *)
(***************************************************************************)
C22_NoCredentialsRaisesBeforeLogin ==
  (lgLast.fn = "ensure" /\ lgLast.classified /\ ~lgLast.isLoggedIn
     /\ ~(lgLast.user /\ lgLast.pass))
  => /\ lgLast.ret = "raise"
     /\ lgLast.msg = "nocreds"
     /\ ~lgLast.navLogin
     /\ ~lgLast.typed
     /\ ~lgLast.submitted

\* the password alone is missing
C22_Witness ==
  /\ lgpc = "returned"
  /\ lgLast.fn = "ensure"
  /\ lgLast.msg = "nocreds"
  /\ lgLast.classified
  /\ ~lgLast.isLoggedIn
  /\ lgLast.user
  /\ ~lgLast.pass


(***************************************************************************)
(* C23: after the credentials are submitted, ensureInstagramLoggedIn       *)
(* returns true only if the four-signal classification used before the     *)
(* submit says authenticated of the page; otherwise it raises, with the    *)
(* first platform error text when there is one and the generic message     *)
(* when there is none.  The check after the submit (lines 330-353) is      *)
(* another one: an indicator or having left the login page, and no alert.  *)
(***************************************************************************)
C23_PostSubmitUsesSameClassification ==
  (lgLast.fn = "ensure" /\ lgLast.submitted)
  => /\ lgLast.ret = "true" => lgLast.postAuth
     /\ lgLast.ret # "true"
          => /\ lgLast.ret = "raise"
             /\ lgLast.msg = IF lgLast.errors = "text" THEN "platform" ELSE "generic"


(***************************************************************************)
(* C24: in a run of an action other than 'login' no discovery call and no  *)
(* executor call (instagramLike, instagramComment, getPostContent) is made *)
(* before ensureInstagramLoggedIn has returned true to the run, and the    *)
(* run calls ensureInstagramLoggedIn once: never a second time, and a run  *)
(* that returns ok has made the call.                                      *)
(***************************************************************************)
C24_LoginGateBeforeAnyCall ==
  /\ [](loginCalls <= 1)
  /\ [](rpc \notin {"idle", "login", "done", "escaped"}
          => loginCalls = 1 /\ loginRet = "true")
  /\ [](rpc = "done" /\ result.ok => loginCalls = 1 /\ loginRet = "true")
  /\ [](rpc = "login" => loginCalls = 0 /\ dpc = "idle" /\ lLast = NoLike
                           /\ cLast = NoComment /\ visited = {})
  /\ [][(/\ rpc' # "idle"
         /\ \/ dpc = "idle" /\ dpc' # "idle"
            \/ lLast' # lLast
            \/ cLast' # cLast
            \/ visited' # visited)
        => loginCalls = 1 /\ loginRet = "true"]_vars

C24_Witness ==
  /\ rpc = "comment" /\ cur \in visited /\ lLast.item = cur
  /\ loginCalls = 1 /\ loginRet = "true"
  /\ url.kind = "item"


(***************************************************************************)
(* C25: every batch the loop of the run asks discovery for has the size    *)
(* min(10, 2 * (maxPosts - successfulComments)): twice what is still       *)
(* missing, capped at 10.  Line 599 computes min(10, 2 * maxPosts).        *)
(***************************************************************************)
C25_BatchSizeFollowsRemaining ==
  (rpc = "discovering" /\ dCaller = "run")
  => dMax = Min(BatchCap, 2 * (maxPosts - successfulComments))


(***************************************************************************)
(* C26: when a run that performs discovery ('discover', 'like',            *)
(* 'auto-comment') is about to make its first discovery call, the          *)
(* discovery state of the module is fresh: nothing is remembered as seen   *)
(* and no listing is remembered as open.  Only 'auto-comment' calls        *)
(* resetDiscoveryState (line 581).                                         *)
(***************************************************************************)
C26_DiscoveryStateFreshAtRunStart ==
  (\/ rpc = "actDiscover"
   \/ rpc = "loophead" /\ attempts = 0 /\ consecutiveEmptyBatches = 0)
  => /\ allDiscoveredPosts = {}
     /\ ~isOnSearchPage
     /\ currentSearchUrl = NULL


(***************************************************************************)
(* C27: the canonicalization discovery applies to the links it reads is    *)
(* idempotent, canon(canon(x)) = canon(x), and two hrefs with the same     *)
(* path (and origin) get the same result whatever their query string and   *)
(* fragment.  Stated for both definitions of discoverInstagramPosts; the   *)
(* second one keeps the href as it is.                                     *)
(***************************************************************************)
C27_CanonIdempotentQueryInsensitive ==
  cnpc = "returned"
  => /\ cnOut.xx = cnOut.x
     /\ cnIn.x.path = cnIn.y.path => cnOut.x = cnOut.y


(***************************************************************************)
(* C28: within a session allDiscoveredPosts only grows: every step keeps   *)
(* all its elements, except a resetDiscoveryState, which empties it.       *)
(***************************************************************************)
C28_SeenOnlyGrows ==
  [][\/ allDiscoveredPosts \subseteq allDiscoveredPosts'
     \/ DoReset /\ dpc = "idle" /\ lpc = "idle" /\ cpc = "idle"]_vars

C28_Witness ==
  /\ allDiscoveredPosts = Items
  /\ dpc = "scroll"
  /\ posts = <<>>
  /\ emitted = [i \in Items |-> 1]


(***************************************************************************)
(* C29: whenever discoverInstagramPosts reads the anchors of the page, the *)
(* page is at the listing of the criterion of the call; a call that finds  *)
(* the page on an item navigates back first.  The entry of the call (lines *)
(* 108-117) goes by isOnSearchPage and currentSearchUrl, which nothing     *)
(* updates when the run moves the page to an item.                         *)
(***************************************************************************)
C29_ExtractsOnListing ==
  (dpc = "loop" /\ dCaller = "run" /\ Len(posts) < dMax)
  => url = ListingUrl(SearchUrl(criteria))


C31_EmptyBatchCounter ==
  /\ [](consecutiveEmptyBatches <= maxConsecutiveEmptyBatches)
  /\ [](consecutiveEmptyBatches = maxConsecutiveEmptyBatches
          => rpc \in {"finish", "done", "escaped"})
  /\ [][(rpc = "discovering" /\ dpc = "returned")
        => consecutiveEmptyBatches' =
             IF Len(posts) = 0 THEN consecutiveEmptyBatches + 1 ELSE 0]_vars
  /\ [][(rpc \notin {"idle", "done", "escaped"} /\ ~(rpc = "discovering" /\ dpc = "returned"))
        => consecutiveEmptyBatches' = consecutiveEmptyBatches]_vars

C31_Witness ==
  /\ rpc = "finish"
  /\ consecutiveEmptyBatches = maxConsecutiveEmptyBatches
  /\ visited # {}
  /\ successfulComments < maxPosts


(***************************************************************************)
(* C32: each time discoverInstagramPosts has returned, allDiscoveredPosts  *)
(* is the union of the batches returned since the last reset: every item   *)
(* returned is in the set, and every item of the set was handed to a       *)
(* caller, also when an earlier call raised inside its loop.               *)
(***************************************************************************)
C32_SeenIsUnionOfReturnedBatches ==
  dpc = "returned" => allDiscoveredPosts = {i \in Items : emitted[i] >= 1}


(***************************************************************************)
(* C33: a discoverInstagramPosts call whose login-wall check finds a wall  *)
(* raises, hands no item to its caller, and leaves allDiscoveredPosts as   *)
(* it was before the call.                                                 *)
(***************************************************************************)
C33_LoginWallRaisesAndKeepsSeen ==
  /\ [](needsLogin => dpc = "raised" /\ posts = <<>>)
  /\ [][(needsLogin' /\ ~needsLogin)
        => /\ dpc = "idle"
           /\ allDiscoveredPosts' = allDiscoveredPosts
           /\ emitted' = emitted]_vars
  /\ [][needsLogin => (allDiscoveredPosts' = allDiscoveredPosts \/ dpc' = "idle")]_vars

C33_Witness ==
  /\ needsLogin
  /\ dpc = "raised"
  /\ allDiscoveredPosts # {}
  /\ isOnSearchPage


(***************************************************************************)
(* C34: when the page instagramLike navigated to shows the item as already *)
(* favorited, the call returns true, the item is in likedPosts, and none   *)
(* of the three strategies was attempted; for every item, also when no     *)
(* media id can be read from the page.  The media id is read first (lines  *)
(* 514-538) and its absence ends the call with false.                      *)
(***************************************************************************)
C34_AlreadyFavoritedIsSuccess ==
  lLast.unlikeShown
  => /\ lLast.ret = "true"
     /\ lLast.item \in likedPosts
     /\ lLast.muts = 0


(***************************************************************************)
(* C35: likedPosts is exactly the set of items for which some instagramLike*)
(* call has returned true: a call that returns false or raises leaves the  *)
(* set as it was, and after a call that returns true its item is in the    *)
(* set.                                                                    *)
(***************************************************************************)
C35_LikedSetIsItemsReturnedTrue ==
  /\ [](likedPosts = everLiked)
  /\ [](lLast.ret = "true" => lLast.item \in likedPosts)
  /\ [][(lLast' # lLast /\ lLast'.ret \in {"false", "raise"})
        => likedPosts' = likedPosts]_vars

C35_Witness ==
  /\ lpc = "returned"
  /\ lLast.ret = "false" /\ lLast.failed = 3
  /\ lLast.item \notin likedPosts
  /\ prevLike.ret = "true" /\ prevLike.muts = 3
  /\ likedPosts = {prevLike.item}


(***************************************************************************)
(* C36: whenever the batch loop calls instagramComment with skipNavigation *)
(* true, the page is at that item; every other call of the loop that gets  *)
(* as far as looking for the text-entry control has navigated to the item. *)
(***************************************************************************)
C36_CommentRunsOnItemPage ==
  /\ [](rpc = "comment" /\ likedSuccessfully => url = ItemUrl(cur))
  /\ [][(cLast' # cLast /\ cLast'.skipNav) => url = ItemUrl(cLast'.item)]_vars
  /\ []((/\ cLast.item # 0
         /\ ~cLast.skipNav
         /\ (cLast.ops \cap {"scroll", "click", "type", "key"} # {}
               \/ cLast.gaveUp = "noinput"))
        => "nav" \in cLast.ops /\ url = ItemUrl(cLast.item))

C36_Witness ==
  /\ rpc = "reportSuccess"
  /\ cLast.skipNav
  /\ cLast.item = cur
  /\ "nav" \notin cLast.ops /\ "click" \in cLast.ops
  /\ url = ItemUrl(cur)
  /\ visited = Items


(***************************************************************************)
(* C37: in the batch loop the content gates run before the executor: for   *)
(* an item whose text has fewer than 3 words, or that is detected as a     *)
(* video post, neither instagramLike nor instagramComment is called and    *)
(* the item is not counted as a success.                                   *)
(***************************************************************************)
C37_GatesBeforeExecutor ==
  /\ [](curGate \in {"short", "video"}
        => rpc \notin {"cache", "like", "comment", "reportSuccess"})
  /\ [](rpc \in {"cache", "like", "comment", "reportSuccess"} => curGate = "pass")
  /\ [][curGate' \in {"short", "video"}
        => /\ lLast' = lLast
           /\ cLast' = cLast
           /\ likedPosts' = likedPosts
           /\ successfulComments' = successfulComments]_vars

C37_Witness ==
  /\ rpc = "forhead"
  /\ curGate = "video"
  /\ cur # 0
  /\ successfulComments = 1
  /\ cLast.item # cur
  /\ visited = Items


(***************************************************************************)
(* C38: with finitely many distinct items in the listing and a page height *)
(* that eventually stops changing, every auto-comment run terminates,      *)
(* whatever the per-item gates and actions answer: no run stays forever    *)
(* short of its end (done: returned, escaped: threw).  Its measure: a batch*)
(* that sends the loop back to its head is one more empty batch of fewer   *)
(* than 5, and a batch that is iterated holds only items not yet visited.  *)
(***************************************************************************)
C38_RunTerminates ==
  /\ []<>(rpc \in {"idle", "done", "escaped"})
  /\ [][(rpc = "discovering" /\ rpc' = "loophead")
        => /\ consecutiveEmptyBatches' = consecutiveEmptyBatches + 1
           /\ consecutiveEmptyBatches' < maxConsecutiveEmptyBatches]_vars
  /\ [][(rpc = "discovering" /\ rpc' = "forhead")
        => /\ batch' # <<>>
           /\ \A k \in 1..Len(batch') : batch'[k] \notin visited]_vars

\* a run that visited every item of the listing and ended short of its target
\* after the fifth empty batch
C38_Witness ==
  /\ action = "auto-comment"
  /\ rpc = "done"
  /\ allDiscoveredPosts = Items
  /\ consecutiveEmptyBatches = maxConsecutiveEmptyBatches
  /\ successfulComments < maxPosts
  /\ attempts = NumItems


(***************************************************************************)
(* C39: in the like action a result entry has success = true only if       *)
(* instagramLike returned true for that item, so the number in the message *)
(* 'Liked N Instagram posts' is the number of items whose favorite action  *)
(* succeeded.                                                              *)
(***************************************************************************)
C39_LikedCountIsTrueReturns ==
  /\ [][(rpc = "actLike" /\ result'.successful = result.successful + 1)
        => lLast'.ret = "true"]_vars
  /\ [](action = "like" /\ rpc = "done" /\ result.message = "liked"
        => result.successful <= Cardinality(everLiked))

(***************************************************************************)
(* C40: in the comment action the result is ok = true with the message     *)
(* 'Comment posted successfully' only if instagramComment returned an      *)
(* outcome with success = true; a skip or failure outcome yields           *)
(* ok = false.                                                             *)
(***************************************************************************)
C40_CommentActionReportsOutcome ==
  (action = "comment" /\ rpc = "done" /\ cLast.item = cur /\ cur # 0)
  => /\ (result.ok /\ result.message = "commented")
          => (~cLast.raised /\ cLast.outcome.success)
     /\ (~cLast.raised /\ (cLast.outcome.skipped \/ ~cLast.outcome.success))
          => ~result.ok

=============================================================================
